---- MODULE Spec2Model ----
(***************************************************************************)
(* Model of the two scripts of YGKing-music-web:                           *)
(*   check_cover.py  HEAD-requests two cover URLs and prints their status  *)
(*   fetch_data.py   GETs one search query and pretty-prints the JSON body *)
(* A run executes one of the two scripts from its first statement to the   *)
(* end of the interpreter.  The network, the standard output and the       *)
(* garbage collector are the environment: their outcomes are inputs.       *)
(***************************************************************************)
EXTENDS Integers, Sequences, FiniteSets, TLC

VARIABLES
    script,     \* which script the interpreter runs
    pc,         \* position in the script
    i,          \* check_cover: index of the current element of urls (0 before the loop)
    url,        \* the variable url of the running script
    response,   \* the response bound by "with ... as response"
    data,       \* fetch_data: the value returned by json.loads
    e,          \* the exception in flight or bound by "except ... as e"
    stdout,     \* the lines written to standard output, in order
    requests,   \* history: the requests handed to urlopen and their outcomes, in order
    open,       \* the response streams that are open (by request number)
    raised,     \* history: the exceptions raised, each with the step that raised it
    keyword,    \* fetch_data: the keyword, a sequence of code points
    quoted      \* fetch_data: quote(keyword), a sequence of ASCII codes

vars == <<script, pc, i, url, response, data, e, stdout, requests, open,
          raised, keyword, quoted>>

None == "None"

\* The body of a response to a HEAD request, and the response before any request.
NoBody == [utf8 |-> TRUE, doc |-> [t |-> "empty"]]
NoResponse == [status |-> 0, body |-> NoBody]

(***************************************************************************)
(* Exceptions.  An exception is a record of its class, the code of an      *)
(* HTTPError and its message (the reason of a URLError).                   *)
(***************************************************************************)
NoExc == [cls |-> None, code |-> 0, msg |-> ""]

\* The classes an exception of class cls is an instance of.
Bases(cls) ==
    CASE cls = "HTTPError"          -> {"HTTPError", "URLError", "OSError", "Exception"}
      [] cls = "URLError"           -> {"URLError", "OSError", "Exception"}
      [] cls = "TimeoutError"       -> {"TimeoutError", "OSError", "Exception"}
      [] cls = "OSError"            -> {"OSError", "Exception"}
      [] cls = "RemoteDisconnected" -> {"RemoteDisconnected", "ConnectionResetError",
                                        "BadStatusLine", "HTTPException",
                                        "OSError", "Exception"}
      [] cls = "BadStatusLine"      -> {"BadStatusLine", "HTTPException", "Exception"}
      [] cls = "IncompleteRead"     -> {"IncompleteRead", "HTTPException", "Exception"}
      [] cls = "UnicodeDecodeError" -> {"UnicodeDecodeError", "UnicodeError",
                                        "ValueError", "Exception"}
      [] cls = "UnicodeEncodeError" -> {"UnicodeEncodeError", "UnicodeError",
                                        "ValueError", "Exception"}
      [] cls = "JSONDecodeError"    -> {"JSONDecodeError", "ValueError", "Exception"}
      [] OTHER                      -> {}

\* str(e), as the f-strings "{e}" format it.
ExcStr(x) ==
    CASE x.cls = "HTTPError" -> "HTTP Error " \o ToString(x.code) \o ": " \o x.msg
      [] x.cls = "URLError"  -> "<urlopen error " \o x.msg \o ">"
      [] OTHER               -> x.msg

HTTPError(c, m) == [cls |-> "HTTPError", code |-> c, msg |-> m]
URLError(reason) == [cls |-> "URLError", code |-> 0, msg |-> reason]
\* BadStatusLine(line): an empty status line is reported as its repr.
BadStatusLine(line) ==
    [cls |-> "BadStatusLine", code |-> 0, msg |-> IF line = "" THEN "''" ELSE line]
Exc(c, m) == [cls |-> c, code |-> 0, msg |-> m]

\* The HTTP error responses a server may give (urlopen raises HTTPError).
HTTPErrors ==
    {HTTPError(404, "Not Found"), HTTPError(403, "Forbidden"),
     HTTPError(500, "Internal Server Error")}

\* The statuses with which urlopen returns a response.
SuccessStatus == {200, 204}

\* The other failures of urlopen: DNS, connection, timeout, malformed response.
TransportErrors ==
    {URLError("[Errno -2] Name or service not known"),
     URLError("[Errno 111] Connection refused"),
     URLError(""),
     Exc("TimeoutError", "timed out"),
     Exc("RemoteDisconnected", "Remote end closed connection without response"),
     BadStatusLine(""),
     BadStatusLine("ICY 200 OK")}

\* A write to standard output that fails, and a close that fails.
StdoutError == Exc("OSError", "[Errno 28] No space left on device")
CloseError == Exc("OSError", "[Errno 5] Input/output error")

\* raise x at a step of the script: x is in flight and recorded.
Raise(step, x) ==
    /\ e' = x
    /\ raised' = Append(raised, [step |-> step, exc |-> x])

\* The steps at which standard output or the close of a response raised.
Faults == {k \in 1..Len(raised) : raised[k].step \in {"stdout", "close", "handler"}}
fault == Faults # {}

\* A request handed to urlopen, and what came of it.
Req(m, u, o, s, x) == [method |-> m, url |-> u, outcome |-> o, status |-> s, exc |-> x]

\* urlopen is called without a timeout argument: the socket default applies.
timeout == None

(***************************************************************************)
(* try/except.  A clause is the class it names and the body it runs; the   *)
(* first clause whose class the exception is an instance of is taken.      *)
(***************************************************************************)
NoClause == [cls |-> None, body |-> "propagate"]

RECURSIVE MatchingClause(_, _)
MatchingClause(clauses, x) ==
    IF clauses = <<>> THEN NoClause
    ELSE IF Head(clauses).cls \in Bases(x.cls) THEN Head(clauses)
    ELSE MatchingClause(Tail(clauses), x)

(***************************************************************************)
(* check_cover.py                                                          *)
(***************************************************************************)
urls ==
    <<"https://y.qq.com/music/photo_new/T062R300x300M000060P0rWL1eOJah.jpg",
      "https://y.qq.com/music/photo_new/T062R300x300M0000048JRIA3PGl5x.jpg">>

\* The element the for statement takes after element j.
SkipIteration(j) == j + 2
NextIteration(j) == j + 1

ExceptClausesSwapped ==
    <<[cls |-> "Exception", body |-> "str"], [cls |-> "HTTPError", body |-> "code"]>>
ExceptClausesNarrow ==
    <<[cls |-> "HTTPError", body |-> "code"], [cls |-> "URLError", body |-> "str"]>>
ExceptClauses ==
    <<[cls |-> "HTTPError", body |-> "code"], [cls |-> "Exception", body |-> "str"]>>

\* The three lines the script prints, as the parts of their f-strings.
StatusLine(u, r) == <<u, ": ", ToString(r.status)>>
CodeLine(u, x) == <<u, ": ", ToString(x.code)>>
ExcLine(u, x) == <<u, ": ", ExcStr(x)>>

\* for url in urls: the next element is bound and the try statement entered.
ForNext ==
    /\ script = "check_cover"
    /\ pc = "for"
    /\ NextIteration(i) <= Len(urls)
    /\ i' = NextIteration(i)
    /\ url' = urls[NextIteration(i)]
    /\ pc' = "try"
    /\ UNCHANGED <<script, response, data, e, stdout, requests, open, raised,
                   keyword, quoted>>

\* for url in urls: the list is exhausted, the script ends.
ForEnd ==
    /\ script = "check_cover"
    /\ pc = "for"
    /\ NextIteration(i) > Len(urls)
    /\ pc' = "done"
    /\ UNCHANGED <<script, i, url, response, data, e, stdout, requests, open,
                   raised, keyword, quoted>>

\* urlopen(req) returns a response with status s; its stream is open.
HeadSuccess ==
    /\ script = "check_cover"
    /\ pc = "try"
    /\ \E s \in SuccessStatus :
          /\ response' = [status |-> s, body |-> NoBody]
          /\ requests' = Append(requests, Req("HEAD", url, "response", s, NoExc))
    /\ open' = open \cup {Len(requests) + 1}
    /\ pc' = "with_body"
    /\ UNCHANGED <<script, i, url, data, e, stdout, raised, keyword, quoted>>

\* urlopen(req) raises HTTPError; the error holds the open response stream.
HeadHTTPError ==
    /\ script = "check_cover"
    /\ pc = "try"
    /\ \E x \in HTTPErrors :
          /\ Raise("request", x)
          /\ requests' = Append(requests, Req("HEAD", url, "http_error", x.code, x))
    /\ open' = open \cup {Len(requests) + 1}
    /\ pc' = "except"
    /\ UNCHANGED <<script, i, url, response, data, stdout, keyword, quoted>>

\* urlopen(req) raises any other error; no stream was opened.
HeadFailure ==
    /\ script = "check_cover"
    /\ pc = "try"
    /\ \E x \in TransportErrors :
          /\ Raise("request", x)
          /\ requests' = Append(requests, Req("HEAD", url, "error", 0, x))
    /\ pc' = "except"
    /\ UNCHANGED <<script, i, url, response, data, stdout, open,
                   keyword, quoted>>

\* The server accepts the connection and never answers: without a timeout
\* urlopen(req) never returns.
HeadBlocks ==
    /\ script = "check_cover"
    /\ pc = "try"
    /\ timeout = None
    /\ requests' = Append(requests, Req("HEAD", url, "blocked", 0, NoExc))
    /\ pc' = "blocked"
    /\ UNCHANGED <<script, i, url, response, data, e, stdout, open, raised,
                   keyword, quoted>>

\* print(f"{url}: {response.status}"); when the write raises, the with
\* statement closes the response and the error reaches the except clauses.
WriteStatus ==
    /\ script = "check_cover"
    /\ pc = "with_body"
    /\ \/ /\ stdout' = Append(stdout, StatusLine(url, response))
          /\ pc' = "with_exit"
          /\ UNCHANGED <<e, raised, open>>
       \/ /\ Raise("stdout", StdoutError)
          /\ open' = open \ {Len(requests)}
          /\ pc' = "except"
          /\ UNCHANGED stdout
    /\ UNCHANGED <<script, i, url, response, data, requests, keyword, quoted>>

\* The end of the with block closes the response; the close may raise.
CloseResponse ==
    /\ script = "check_cover"
    /\ pc = "with_exit"
    /\ open' = open \ {Len(requests)}
    /\ \/ /\ pc' = "for"
          /\ UNCHANGED <<e, raised>>
       \/ /\ Raise("close", CloseError)
          /\ pc' = "except"
    /\ UNCHANGED <<script, i, url, response, data, stdout, requests, keyword, quoted>>

\* except urllib.error.HTTPError as e: print(f"{url}: {e.code}").  The
\* script does not close the stream the error holds: after e is unbound the
\* stream is closed when the garbage collector finalises the error, which
\* may be at once or not before the script ends.
ExceptHTTPError ==
    /\ script = "check_cover"
    /\ pc = "except"
    /\ MatchingClause(ExceptClauses, e).body = "code"
    /\ \/ /\ stdout' = Append(stdout, CodeLine(url, e))
          /\ e' = NoExc
          /\ pc' = "for"
          /\ open' \in {open, open \ {Len(requests)}}
          /\ UNCHANGED raised
       \/ /\ Raise("handler", StdoutError)
          /\ pc' = "crashed"
          /\ UNCHANGED <<stdout, open>>
    /\ UNCHANGED <<script, i, url, response, data, requests, keyword, quoted>>

\* except Exception as e: print(f"{url}: {e}"); an exception no clause
\* matches, or one raised by the handler itself, ends the script with a
\* traceback.
ExceptException ==
    /\ script = "check_cover"
    /\ pc = "except"
    /\ MatchingClause(ExceptClauses, e).body # "code"
    /\ \/ /\ MatchingClause(ExceptClauses, e).body = "str"
          /\ stdout' = Append(stdout, ExcLine(url, e))
          /\ e' = NoExc
          /\ pc' = "for"
          /\ open' \in {open, open \ {Len(requests)}}
          /\ UNCHANGED raised
       \/ /\ MatchingClause(ExceptClauses, e).body = "str"
          /\ Raise("handler", StdoutError)
          /\ pc' = "crashed"
          /\ UNCHANGED <<stdout, open>>
       \/ /\ MatchingClause(ExceptClauses, e).body = "propagate"
          /\ pc' = "crashed"
          /\ UNCHANGED <<e, raised, stdout, open>>
    /\ UNCHANGED <<script, i, url, response, data, requests, keyword, quoted>>

CoverNext ==
    \/ ForNext
    \/ ForEnd
    \/ HeadSuccess
    \/ HeadHTTPError
    \/ HeadFailure
    \/ HeadBlocks
    \/ WriteStatus
    \/ CloseResponse
    \/ ExceptHTTPError
    \/ ExceptException

(***************************************************************************)
(* urllib.parse.quote(keyword), with the default safe="/" and UTF-8.       *)
(* Text is a sequence of code points, encoded text a sequence of ASCII     *)
(* codes.                                                                  *)
(***************************************************************************)
\* The UTF-8 bytes of one code point.
Utf8(c) ==
    IF c < 128 THEN <<c>>
    ELSE IF c < 2048 THEN <<192 + (c \div 64), 128 + (c % 64)>>
    ELSE IF c < 65536
        THEN <<224 + (c \div 4096), 128 + ((c \div 64) % 64), 128 + (c % 64)>>
    ELSE <<240 + (c \div 262144), 128 + ((c \div 4096) % 64),
           128 + ((c \div 64) % 64), 128 + (c % 64)>>

\* The bytes quote never escapes: letters, digits and "_.-~".
AlwaysSafe == (65..90) \cup (97..122) \cup (48..57) \cup {95, 46, 45, 126}

\* The default of the parameter safe: "/".
Safe == {47}

\* The ASCII code of the upper-case hexadecimal digit of n.
HexDigit(n) == IF n < 10 THEN 48 + n ELSE 55 + n

\* quote_plus, which writes a space as "+".
QuotePlusByte(b) ==
    IF b = 32 THEN <<43>>
    ELSE IF b \in AlwaysSafe \cup Safe THEN <<b>>
    ELSE <<37, HexDigit(b \div 16), HexDigit(b % 16)>>
\* One byte as quote writes it: itself, or "%XX".
QuoteByte(b) ==
    IF b \in AlwaysSafe \cup Safe THEN <<b>>
    ELSE <<37, HexDigit(b \div 16), HexDigit(b % 16)>>

\* The sequences below are folded by halves, as deep as the logarithm of
\* their length.
RECURSIVE QuoteBytes(_)
QuoteBytes(bs) ==
    IF Len(bs) = 0 THEN <<>>
    ELSE IF Len(bs) = 1 THEN QuoteByte(bs[1])
    ELSE QuoteBytes(SubSeq(bs, 1, Len(bs) \div 2))
         \o QuoteBytes(SubSeq(bs, Len(bs) \div 2 + 1, Len(bs)))

\* keyword.encode("utf-8")
RECURSIVE Encode(_)
Encode(s) ==
    IF Len(s) = 0 THEN <<>>
    ELSE IF Len(s) = 1 THEN Utf8(s[1])
    ELSE Encode(SubSeq(s, 1, Len(s) \div 2))
         \o Encode(SubSeq(s, Len(s) \div 2 + 1, Len(s)))

Quote(s) == QuoteBytes(Encode(s))

\* The characters of the ASCII codes 32 to 126 (code 96, which a TLA+ string
\* cannot hold and quote always escapes, is written "?").
AsciiTable ==
    <<" ", "!", "\"", "#", "$", "%", "&", "'", "(", ")", "*", "+", ",", "-", ".", "/",
      "0", "1", "2", "3", "4", "5", "6", "7", "8", "9", ":", ";", "<", "=", ">", "?",
      "@", "A", "B", "C", "D", "E", "F", "G", "H", "I", "J", "K", "L", "M", "N", "O",
      "P", "Q", "R", "S", "T", "U", "V", "W", "X", "Y", "Z", "[", "\\", "]", "^", "_",
      "?", "a", "b", "c", "d", "e", "f", "g", "h", "i", "j", "k", "l", "m", "n", "o",
      "p", "q", "r", "s", "t", "u", "v", "w", "x", "y", "z", "{", "|", "}", "~">>

\* The string of a sequence of ASCII codes.
RECURSIVE AsciiStr(_)
AsciiStr(cs) ==
    IF Len(cs) = 0 THEN ""
    ELSE IF Len(cs) = 1 THEN AsciiTable[cs[1] - 31]
    ELSE AsciiStr(SubSeq(cs, 1, Len(cs) \div 2))
         \o AsciiStr(SubSeq(cs, Len(cs) \div 2 + 1, Len(cs)))

(***************************************************************************)
(* urllib.parse.unquote, the percent-decoding of a quoted keyword.         *)
(***************************************************************************)
\* The value of a hexadecimal digit given by its ASCII code, or -1.
HexValue(c) ==
    IF c \in 48..57 THEN c - 48
    ELSE IF c \in 65..70 THEN c - 55
    ELSE IF c \in 97..102 THEN c - 87
    ELSE -1

\* cs[k] is a "%" followed by two hexadecimal digits.
EscapeAt(cs, k) ==
    /\ k >= 1
    /\ k + 2 <= Len(cs)
    /\ cs[k] = 37
    /\ HexValue(cs[k + 1]) >= 0
    /\ HexValue(cs[k + 2]) >= 0

\* unquote_to_bytes splits at every "%": an item that starts with two
\* hexadecimal digits gives their byte, any other "%" stays.
UnquoteAt(cs, k) ==
    IF EscapeAt(cs, k) THEN <<16 * HexValue(cs[k + 1]) + HexValue(cs[k + 2])>>
    ELSE IF EscapeAt(cs, k - 1) \/ EscapeAt(cs, k - 2) THEN <<>>
    ELSE <<cs[k]>>

RECURSIVE UnquoteRange(_, _, _)
UnquoteRange(cs, lo, hi) ==
    IF lo > hi THEN <<>>
    ELSE IF lo = hi THEN UnquoteAt(cs, lo)
    ELSE UnquoteRange(cs, lo, (lo + hi) \div 2)
         \o UnquoteRange(cs, (lo + hi) \div 2 + 1, hi)

UnquoteToBytes(cs) == UnquoteRange(cs, 1, Len(cs))

IsCont(bs, k) == k >= 1 /\ k <= Len(bs) /\ bs[k] \in 128..191

\* The length of the well-formed UTF-8 sequence that starts at bs[k], or 0.
SeqLen(bs, k) ==
    IF k < 1 \/ k > Len(bs) THEN 0
    ELSE IF bs[k] < 128 THEN 1
    ELSE IF bs[k] \in 194..223 /\ IsCont(bs, k + 1) THEN 2
    ELSE IF /\ bs[k] \in 224..239 /\ IsCont(bs, k + 1) /\ IsCont(bs, k + 2)
            /\ (bs[k] - 224) * 4096 + (bs[k + 1] - 128) * 64 >= 2048
            /\ (bs[k] - 224) * 4096 + (bs[k + 1] - 128) * 64 \notin 55296..57343
        THEN 3
    ELSE IF /\ bs[k] \in 240..244
            /\ IsCont(bs, k + 1) /\ IsCont(bs, k + 2) /\ IsCont(bs, k + 3)
            /\ (bs[k] - 240) * 262144 + (bs[k + 1] - 128) * 4096 \in 65536..1114111
        THEN 4
    ELSE 0

\* The code point of the well-formed sequence of length n that starts at bs[k].
CodePoint(bs, k, n) ==
    IF n = 1 THEN bs[k]
    ELSE IF n = 2 THEN (bs[k] - 192) * 64 + (bs[k + 1] - 128)
    ELSE IF n = 3
        THEN (bs[k] - 224) * 4096 + (bs[k + 1] - 128) * 64 + (bs[k + 2] - 128)
    ELSE (bs[k] - 240) * 262144 + (bs[k + 1] - 128) * 4096
             + (bs[k + 2] - 128) * 64 + (bs[k + 3] - 128)

\* bytes.decode("utf-8", "replace") at bs[k]: the code point of the sequence
\* that starts there, nothing for a byte of a sequence that started before,
\* U+FFFD for a byte of no well-formed sequence.
DecodeAt(bs, k) ==
    IF SeqLen(bs, k) > 0 THEN <<CodePoint(bs, k, SeqLen(bs, k))>>
    ELSE IF \E n \in 1..3 : IsCont(bs, k) /\ SeqLen(bs, k - n) > n THEN <<>>
    ELSE <<65533>>

RECURSIVE DecodeRange(_, _, _)
DecodeRange(bs, lo, hi) ==
    IF lo > hi THEN <<>>
    ELSE IF lo = hi THEN DecodeAt(bs, lo)
    ELSE DecodeRange(bs, lo, (lo + hi) \div 2)
         \o DecodeRange(bs, (lo + hi) \div 2 + 1, hi)

Decode(bs) == DecodeRange(bs, 1, Len(bs))

Unquote(cs) == Decode(UnquoteToBytes(cs))

\* keyword = "..." of fetch_data.py, as code points.
FixedKeyword ==
    <<20256, 22855, 32, 40, 50, 48, 50, 51, 32, 74, 74, 50, 48, 19990, 30028,
      24033, 22238, 28436, 21809, 20250, 27494, 27721, 31449>>

\* url = f"...keyword={quote(keyword)}&type=song&num=1&page=1"
SearchUrl(q) ==
    "https://api.ygking.top/api/search?keyword=" \o AsciiStr(q)
        \o "&type=song&num=1&page=1"

(***************************************************************************)
(* JSON.  A JSON text is its syntax tree; a string is a sequence of items, *)
(* each a code point written raw or as an escape.  The tree of a text      *)
(* that json.dumps writes may hold the constant Infinity, which the JSON   *)
(* grammar does not have.                                                  *)
(***************************************************************************)
Raw(c) == [c |-> c, esc |-> FALSE]
Esc(c) == [c |-> c, esc |-> TRUE]
JLit(v) == [t |-> "lit", v |-> v]
JInt(n) == [t |-> "int", v |-> n]
JReal(m, x) == [t |-> "real", m |-> m, x |-> x]
JStr(items) == [t |-> "str", s |-> items]
JObj(members) == [t |-> "obj", m |-> members]
JArr(elems) == [t |-> "arr", a |-> elems]
JInfinity == [t |-> "const", v |-> "Infinity"]
Garbage == [t |-> "garbage"]

\* The largest decimal exponent of a finite double.
MaxDoubleExp == 308

\* The code points of a string's items.
Chars(items) == [k \in 1..Len(items) |-> items[k].c]

\* d[k] = v on a dict kept as the sequence of its <<key, value>> pairs.
DictSet(d, k, v) ==
    IF \E j \in 1..Len(d) : d[j][1] = k
    THEN [j \in 1..Len(d) |-> IF d[j][1] = k THEN <<k, v>> ELSE d[j]]
    ELSE Append(d, <<k, v>>)

\* The texts the JSON grammar accepts.
RECURSIVE ValidJson(_)
ValidJson(n) ==
    CASE n.t \in {"lit", "int", "real", "str"} -> TRUE
      [] n.t = "obj" -> \A k \in 1..Len(n.m) : ValidJson(n.m[k][2])
      [] n.t = "arr" -> \A k \in 1..Len(n.a) : ValidJson(n.a[k])
      [] OTHER -> FALSE

\* json.loads: a real beyond the range of a double becomes inf, the
\* constant Infinity is read as inf, a repeated key keeps its last value.
RECURSIVE Loads(_)
RECURSIVE LoadMembers(_, _)
LoadMembers(ms, acc) ==
    IF ms = <<>> THEN acc
    ELSE LoadMembers(Tail(ms), DictSet(acc, Chars(Head(ms)[1]), Loads(Head(ms)[2])))
Loads(n) ==
    CASE n.t = "real" ->
            IF n.x > MaxDoubleExp THEN [t |-> "float_inf"]
            ELSE [t |-> "float", m |-> n.m, x |-> n.x]
      [] n.t = "const" -> [t |-> "float_inf"]
      [] n.t = "str" -> [t |-> "str", s |-> Chars(n.s)]
      [] n.t = "obj" -> [t |-> "dict", m |-> LoadMembers(n.m, <<>>)]
      [] n.t = "arr" -> [t |-> "list", a |-> [k \in 1..Len(n.a) |-> Loads(n.a[k])]]
      [] OTHER -> n

\* One character of a string as json.dumps(ensure_ascii=False) writes it:
\* only the quote, the backslash and the control characters are escaped.
DumpChar(c) == [c |-> c, esc |-> c < 32 \/ c \in {34, 92}]
DumpString(cs) == [k \in 1..Len(cs) |-> DumpChar(cs[k])]

\* json.dumps(data, indent=2, ensure_ascii=False)
RECURSIVE Dumps(_)
Dumps(v) ==
    CASE v.t = "float_inf" -> JInfinity
      [] v.t = "float" -> JReal(v.m, v.x)
      [] v.t = "str" -> JStr(DumpString(v.s))
      [] v.t = "dict" ->
            JObj([k \in 1..Len(v.m) |-> <<DumpString(v.m[k][1]), Dumps(v.m[k][2])>>])
      [] v.t = "list" -> JArr([k \in 1..Len(v.a) |-> Dumps(v.a[k])])
      [] OTHER -> v

\* The raw characters of a text are written to standard output as UTF-8,
\* which has no encoding for a surrogate code point.
EncodableItems(items) ==
    \A k \in 1..Len(items) : items[k].esc \/ items[k].c \notin 55296..57343
RECURSIVE Encodable(_)
Encodable(n) ==
    CASE n.t = "str" -> EncodableItems(n.s)
      [] n.t = "obj" ->
            \A k \in 1..Len(n.m) : EncodableItems(n.m[k][1]) /\ Encodable(n.m[k][2])
      [] n.t = "arr" -> \A k \in 1..Len(n.a) : Encodable(n.a[k])
      [] OTHER -> TRUE

\* The response bodies of the search API that the model draws from.
Bodies ==
    { \* {"code":0,"data":{"song":"传奇"}}
      [utf8 |-> TRUE,
       doc |-> JObj(<< <<<<Raw(99), Raw(111), Raw(100), Raw(101)>>, JInt(0)>>,
                       <<<<Raw(100), Raw(97), Raw(116), Raw(97)>>,
                         JObj(<< <<<<Raw(115), Raw(111), Raw(110), Raw(103)>>,
                                   JStr(<<Raw(20256), Raw(22855)>>)>> >>)>> >>)],
      \* {"song":"传奇"}
      [utf8 |-> TRUE,
       doc |-> JObj(<< <<<<Raw(115), Raw(111), Raw(110), Raw(103)>>,
                         JStr(<<Esc(20256), Esc(22855)>>)>> >>)],
      \* {"a":1,"a":2}
      [utf8 |-> TRUE,
       doc |-> JObj(<< <<<<Raw(97)>>, JInt(1)>>, <<<<Raw(97)>>, JInt(2)>> >>)],
      \* [1.5e0, null]
      [utf8 |-> TRUE, doc |-> JArr(<<JReal(15, -1), JLit("null")>>)],
      \* {"a":1e999}
      [utf8 |-> TRUE, doc |-> JObj(<< <<<<Raw(97)>>, JReal(1, 999)>> >>)],
      \* "\ud83d"
      [utf8 |-> TRUE, doc |-> JStr(<<Esc(55357)>>)],
      \* <html>...
      [utf8 |-> TRUE, doc |-> Garbage],
      \* bytes that are not UTF-8
      [utf8 |-> FALSE, doc |-> Garbage] }

(***************************************************************************)
(* fetch_data.py                                                           *)
(***************************************************************************)
SearchExceptClausesNarrow == <<[cls |-> "OSError", body |-> "error"]>>
SearchExceptClauses == <<[cls |-> "Exception", body |-> "error"]>>

\* print(f"Error: {e}")
MessageLine(x) == <<ExcStr(x)>>
ErrorLine(x) == <<"Error: ", ExcStr(x)>>

\* Where the script goes after the except clause.
Retry == "try"
AfterExcept == "done"

\* keyword = ...; url = f"...{urllib.parse.quote(keyword)}..."
BuildUrl ==
    /\ script = "fetch_data"
    /\ pc = "build_url"
    /\ quoted' = Quote(keyword)
    /\ url' = SearchUrl(Quote(keyword))
    /\ pc' = "try"
    /\ UNCHANGED <<script, i, response, data, e, stdout, requests, open, raised,
                   keyword>>

\* urlopen(url) returns a response; its stream is open.
GetSuccess ==
    /\ script = "fetch_data"
    /\ pc = "try"
    /\ \E b \in Bodies :
          /\ response' = [status |-> 200, body |-> b]
          /\ requests' = Append(requests, Req("GET", url, "response", 200, NoExc))
    /\ open' = open \cup {Len(requests) + 1}
    /\ pc' = "with_body"
    /\ UNCHANGED <<script, i, url, data, e, stdout, raised, keyword, quoted>>

\* urlopen(url) raises HTTPError; the error holds the open response stream.
GetHTTPError ==
    /\ script = "fetch_data"
    /\ pc = "try"
    /\ \E x \in HTTPErrors :
          /\ Raise("request", x)
          /\ requests' = Append(requests, Req("GET", url, "http_error", x.code, x))
    /\ open' = open \cup {Len(requests) + 1}
    /\ pc' = "except"
    /\ UNCHANGED <<script, i, url, response, data, stdout, keyword, quoted>>

\* urlopen(url) raises any other error; no stream was opened.
GetFailure ==
    /\ script = "fetch_data"
    /\ pc = "try"
    /\ \E x \in TransportErrors :
          /\ Raise("request", x)
          /\ requests' = Append(requests, Req("GET", url, "error", 0, x))
    /\ pc' = "except"
    /\ UNCHANGED <<script, i, url, response, data, stdout, open,
                   keyword, quoted>>

\* The server never answers: without a timeout urlopen(url) never returns.
GetBlocks ==
    /\ script = "fetch_data"
    /\ pc = "try"
    /\ timeout = None
    /\ requests' = Append(requests, Req("GET", url, "blocked", 0, NoExc))
    /\ pc' = "blocked"
    /\ UNCHANGED <<script, i, url, response, data, e, stdout, open, raised,
                   keyword, quoted>>

\* data = json.loads(response.read().decode('utf-8')): the read may break
\* off, the bytes may not be UTF-8, the text may not be JSON.  An error
\* leaves the with block, which closes the response.
ReadAndParse ==
    /\ script = "fetch_data"
    /\ pc = "with_body"
    /\ \/ /\ Raise("read", Exc("IncompleteRead", "IncompleteRead(0 bytes read)"))
          /\ open' = open \ {Len(requests)}
          /\ pc' = "except"
          /\ UNCHANGED data
       \/ /\ ~response.body.utf8
          /\ Raise("decode", Exc("UnicodeDecodeError",
                      "'utf-8' codec can't decode byte 0xff in position 0: invalid start byte"))
          /\ open' = open \ {Len(requests)}
          /\ pc' = "except"
          /\ UNCHANGED data
       \/ /\ response.body.utf8
          /\ ~ValidJson(response.body.doc)
          /\ Raise("parse", Exc("JSONDecodeError", "Expecting value: line 1 column 1 (char 0)"))
          /\ open' = open \ {Len(requests)}
          /\ pc' = "except"
          /\ UNCHANGED data
       \/ /\ response.body.utf8
          /\ ValidJson(response.body.doc)
          /\ data' = Loads(response.body.doc)
          /\ pc' = "dump"
          /\ UNCHANGED <<e, raised, open>>
    /\ UNCHANGED <<script, i, url, response, stdout, requests, keyword, quoted>>

\* print(json.dumps(data, indent=2, ensure_ascii=False)): the text is
\* written in one call; a text standard output cannot encode, or a write
\* that fails, raises, and the with block closes the response.
WriteJson ==
    /\ script = "fetch_data"
    /\ pc = "dump"
    /\ \/ /\ Encodable(Dumps(data))
          /\ stdout' = Append(stdout, <<Dumps(data)>>)
          /\ pc' = "with_exit"
          /\ UNCHANGED <<e, raised, open>>
       \/ /\ ~Encodable(Dumps(data))
          /\ Raise("encode", Exc("UnicodeEncodeError",
                      "'utf-8' codec can't encode character: surrogates not allowed"))
          /\ open' = open \ {Len(requests)}
          /\ pc' = "except"
          /\ UNCHANGED stdout
       \/ /\ Raise("stdout", StdoutError)
          /\ open' = open \ {Len(requests)}
          /\ pc' = "except"
          /\ UNCHANGED stdout
    /\ UNCHANGED <<script, i, url, response, data, requests, keyword, quoted>>

\* The end of the with block closes the response; the close may raise.
CloseSearchResponse ==
    /\ script = "fetch_data"
    /\ pc = "with_exit"
    /\ open' = open \ {Len(requests)}
    /\ \/ /\ pc' = "done"
          /\ UNCHANGED <<e, raised>>
       \/ /\ Raise("close", CloseError)
          /\ pc' = "except"
    /\ UNCHANGED <<script, i, url, response, data, stdout, requests, keyword, quoted>>

\* except Exception as e: print(f"Error: {e}").  The stream an HTTPError
\* holds is left to the garbage collector.  An exception the clause does
\* not match, or one raised by the handler, ends the script with a traceback.
ExceptSearch ==
    /\ script = "fetch_data"
    /\ pc = "except"
    /\ \/ /\ MatchingClause(SearchExceptClauses, e).body = "error"
          /\ stdout' = Append(stdout, ErrorLine(e))
          /\ e' = NoExc
          /\ pc' = AfterExcept
          /\ open' \in {open, open \ {Len(requests)}}
          /\ UNCHANGED raised
       \/ /\ MatchingClause(SearchExceptClauses, e).body = "error"
          /\ Raise("handler", StdoutError)
          /\ pc' = "crashed"
          /\ UNCHANGED <<stdout, open>>
       \/ /\ MatchingClause(SearchExceptClauses, e).body = "propagate"
          /\ pc' = "crashed"
          /\ UNCHANGED <<e, raised, stdout, open>>
    /\ UNCHANGED <<script, i, url, response, data, requests, keyword, quoted>>

SearchNext ==
    \/ BuildUrl
    \/ GetSuccess
    \/ GetHTTPError
    \/ GetFailure
    \/ GetBlocks
    \/ ReadAndParse
    \/ WriteJson
    \/ CloseSearchResponse
    \/ ExceptSearch

(***************************************************************************)
(* The interpreter                                                         *)
(***************************************************************************)
\* The exit code of the interpreter once the script has ended.
ExitCode == IF pc = "done" THEN 0 ELSE IF pc = "crashed" THEN 1 ELSE -1

Init ==
    /\ script \in {"check_cover", "fetch_data"}
    /\ pc = "start"
    /\ i = 0
    /\ url = None
    /\ response = NoResponse
    /\ data = [t |-> None]
    /\ e = NoExc
    /\ stdout = <<>>
    /\ requests = <<>>
    /\ open = {}
    /\ raised = <<>>
    /\ keyword = IF script = "fetch_data" THEN FixedKeyword ELSE <<>>
    /\ quoted = <<>>

\* The interpreter starts the script.
Start ==
    /\ pc = "start"
    /\ pc' = IF script = "check_cover" THEN "for" ELSE "build_url"
    /\ UNCHANGED <<script, i, url, response, data, e, stdout, requests, open,
                   raised, keyword, quoted>>

Next == Start \/ CoverNext \/ SearchNext

Spec == Init /\ [][Next]_vars

\* The interpreter that runs check_cover.py executes the next statement
\* whenever there is one.
FairSpec == Spec /\ WF_vars(Start \/ CoverNext)

(***************************************************************************)
(* quote on its own: the keyword is drawn from a bounded set.              *)
(***************************************************************************)
MaxLen == 3

\* Non-ASCII text (3- and 2-byte), space, parenthesis, digit, letter, and
\* the characters "%", "&", "=" and "+" that have a meaning in a query.
Alphabet == {20256, 233, 32, 40, 50, 74, 37, 38, 61, 43}

Keywords ==
    UNION {[1..n -> Alphabet] : n \in 0..MaxLen} \cup {FixedKeyword}

InitQuote ==
    /\ script = "fetch_data"
    /\ pc = "start"
    /\ i = 0
    /\ url = None
    /\ response = NoResponse
    /\ data = [t |-> None]
    /\ e = NoExc
    /\ stdout = <<>>
    /\ requests = <<>>
    /\ open = {}
    /\ raised = <<>>
    /\ keyword \in Keywords
    /\ quoted = <<>>

QuoteNext == Start \/ BuildUrl

SpecQuote == InitQuote /\ [][QuoteNext]_vars

(***************************************************************************)
(* Properties                                                              *)
(***************************************************************************)
Ended == pc \in {"done", "crashed"}

\* The steps of the exceptions raised so far.
Steps == {raised[k].step : k \in 1..Len(raised)}

\* C1: check_cover.py, for every combination of outcomes of the two HEAD
\* requests (response, HTTP error response, other failure) and with standard
\* output and close working: the script runs to its end, every URL of the
\* list is requested once, in list order, and exactly one line is printed
\* per URL, in list order.
C1_OneLinePerUrl ==
    (script = "check_cover" /\ ~fault) =>
        /\ pc # "crashed"
        /\ pc = "done" =>
            /\ Len(requests) = Len(urls)
            /\ Len(stdout) = Len(urls)
            /\ \A k \in 1..Len(urls) :
                /\ requests[k].method = "HEAD"
                /\ requests[k].url = urls[k]
                /\ stdout[k][1] = urls[k]

\* A run in which the first URL fails and the second is answered.
C1_Witness ==
    /\ script = "check_cover"
    /\ pc = "done"
    /\ ~fault
    /\ Len(requests) = 2
    /\ requests[1].outcome = "error"
    /\ requests[2].outcome = "response"
    /\ Len(stdout) = 2

\* C2: check_cover.py, with standard output and close working: the line of
\* a request answered with status s is "<url>: s" and the line of a request
\* answered by an HTTP error response with code c is "<url>: c", for the
\* URL that was requested and the code of that response (200 gives
\* "<url>: 200", 404 gives "<url>: 404").
C2_StatusOrCodePrinted ==
    (script = "check_cover" /\ ~fault) =>
        \A k \in 1..Len(stdout) :
            /\ requests[k].outcome = "response" =>
                /\ stdout[k] = <<requests[k].url, ": ", ToString(requests[k].status)>>
                /\ requests[k].status = 200 => stdout[k][3] = "200"
            /\ requests[k].outcome = "http_error" =>
                /\ stdout[k] = <<requests[k].url, ": ", ToString(requests[k].exc.code)>>
                /\ requests[k].exc.code = 404 => stdout[k][3] = "404"

\* The first URL is answered 200 and the second 404, and both lines are out.
C2_Witness ==
    /\ script = "check_cover"
    /\ ~fault
    /\ stdout = << <<urls[1], ": ", "200">>, <<urls[2], ": ", "404">> >>
    /\ requests[1].outcome = "response"
    /\ requests[2].outcome = "http_error"

\* C3: check_cover.py, with standard output and close working: the line of
\* a request that failed with anything but an HTTP error response is
\* "<url>: <description>" with a non-empty description, and a run with such
\* a failure goes on to request every URL of the list and ends normally.
C3_FailureLineAndContinue ==
    (script = "check_cover" /\ ~fault) =>
        /\ \A k \in 1..Len(stdout) :
            requests[k].outcome = "error" =>
                /\ Len(stdout[k]) = 3
                /\ stdout[k][1] = requests[k].url
                /\ stdout[k][2] = ": "
                /\ stdout[k][3] = ExcStr(requests[k].exc)
                /\ stdout[k][3] # ""
        /\ (\E k \in 1..Len(requests) : requests[k].outcome = "error") =>
            /\ pc # "crashed"
            /\ pc = "done" => Len(requests) = Len(urls) /\ Len(stdout) = Len(urls)

\* The first request times out, the second has an empty status line; the
\* run has ended.
C3_Witness ==
    /\ script = "check_cover"
    /\ pc = "done"
    /\ ~fault
    /\ Len(requests) = 2
    /\ requests[1].exc.cls = "TimeoutError"
    /\ requests[2].exc.cls = "BadStatusLine"
    /\ stdout[2] = <<urls[2], ": ", "''">>

\* C4: fetch_data.py: a run whose only exception is one raised by the
\* request, the read, the UTF-8 decode or the JSON parse ends normally with
\* exactly one line printed, "Error: " followed by the message of that
\* exception, and no JSON text.
C4_FailurePrintsOneErrorLine ==
    (/\ script = "fetch_data"
     /\ Len(raised) = 1
     /\ raised[1].step \in {"request", "read", "decode", "parse"}
     /\ pc \notin {"except"}) =>
        /\ pc = "done"
        /\ stdout = << <<"Error: ", ExcStr(raised[1].exc)>> >>

\* The body was not JSON and the error line is out.
C4_Witness ==
    /\ script = "fetch_data"
    /\ pc = "done"
    /\ Len(raised) = 1
    /\ raised[1].step = "parse"
    /\ stdout = << <<"Error: ", "Expecting value: line 1 column 1 (char 0)">> >>

ExpectedSearchUrl ==
    "https://api.ygking.top/api/search?keyword=%E4%BC%A0%E5%A5%87%20%282023%20JJ20%E4%B8%96%E7%95%8C%E5%B7%A1%E5%9B%9E%E6%BC%94%E5%94%B1%E4%BC%9A%E6%AD%A6%E6%B1%89%E7%AB%99&type=song&num=1&page=1"

\* C6: fetch_data.py: at most one request is ever handed to urlopen, it is
\* a GET of the search URL, and a run that has ended or is waiting for the
\* answer has made exactly one, whatever its outcome.
C6_ExactlyOneGet ==
    script = "fetch_data" =>
        /\ Len(requests) <= 1
        /\ (Ended \/ pc = "blocked") => Len(requests) = 1
        /\ \A k \in 1..Len(requests) :
            requests[k].method = "GET" /\ requests[k].url = ExpectedSearchUrl

\* A run whose request failed has ended with that one request.
C6_Witness ==
    /\ script = "fetch_data"
    /\ pc = "done"
    /\ Len(requests) = 1
    /\ requests[1].outcome = "error"
    /\ Len(stdout) = 1

\* An encoded keyword holds only visible ASCII, none of the characters
\* "&", "=", "#", "?", "+" and space, and "%" only before two hex digits.
NoRawReserved(cs) ==
    \A k \in 1..Len(cs) :
        /\ cs[k] \in 33..126
        /\ cs[k] \notin {38, 61, 35, 63, 43}
        /\ cs[k] = 37 =>
            /\ k + 2 <= Len(cs)
            /\ HexValue(cs[k + 1]) >= 0
            /\ HexValue(cs[k + 2]) >= 0

\* C7: for the keyword of the script and for every keyword over its
\* character classes, percent-decoding the encoded keyword gives the
\* keyword back, and the encoded keyword has no raw reserved character.
C7_QuoteRoundTrip ==
    pc = "try" =>
        /\ Unquote(quoted) = keyword
        /\ NoRawReserved(quoted)
        /\ url = SearchUrl(quoted)

\* The keyword of the script has been encoded into the search URL.
C7_Witness ==
    /\ pc = "try"
    /\ keyword = FixedKeyword
    /\ url = ExpectedSearchUrl

\* Every non-ASCII character of a text is written raw.
UnescapedItems(items) == \A k \in 1..Len(items) : items[k].c >= 128 => ~items[k].esc
RECURSIVE Unescaped(_)
Unescaped(n) ==
    CASE n.t = "str" -> UnescapedItems(n.s)
      [] n.t = "obj" ->
            \A k \in 1..Len(n.m) : UnescapedItems(n.m[k][1]) /\ Unescaped(n.m[k][2])
      [] n.t = "arr" -> \A k \in 1..Len(n.a) : Unescaped(n.a[k])
      [] OTHER -> TRUE

\* C8 as claimed: fetch_data.py: when the body is valid UTF-8 JSON and the
\* read, standard output and close work, the run prints exactly one text,
\* which is valid JSON, parses back to the value of the body and has its
\* non-ASCII characters unescaped, and no "Error:" line.
C8_ValidBodyPrintsJson ==
    (/\ script = "fetch_data"
     /\ Ended
     /\ Len(requests) = 1
     /\ requests[1].outcome = "response"
     /\ response.body.utf8
     /\ ValidJson(response.body.doc)
     /\ Steps \cap {"read", "stdout", "close", "handler"} = {}) =>
        /\ Len(stdout) = 1
        /\ Len(stdout[1]) = 1
        /\ ValidJson(stdout[1][1])
        /\ Loads(stdout[1][1]) = Loads(response.body.doc)
        /\ Unescaped(stdout[1][1])

\* C9 as claimed: every run of check_cover.py ends.
C9_CoverTerminates == <>(script = "check_cover" => Ended)

====
